---- MODULE Spec2Model ----
(***************************************************************************)
(* Model of Migration-script/Python/migrate_github_repos.py: one process   *)
(* run of main() after another, against the files that outlive a run (the  *)
(* outcome store MigrationDetails.csv, the diagnostic files logs/<repo>.log *)
(* and the run log MigrationLog.txt).                                      *)
(*                                                                         *)
(* Texts (stdout, stderr, exception messages, file contents) are sequences *)
(* of one-character strings, so that lower() and the substring test `in`   *)
(* are computed character by character as Python computes them.            *)
(***************************************************************************)
EXTENDS Naturals, Sequences, FiniteSets

VARIABLES
    pc,            \* position of the process in main() / migrate_repository()
    runs,          \* number of process runs started so far
    exitStatus,    \* exit status of the last finished process, Nothing while running
    environ,       \* os.environ restricted to the four required variables
    repos,         \* Some(rows of repos.csv as csv.DictReader yields them), Nothing before open
    idx,           \* number of rows the for loop has consumed
    current_name,  \* migrate_repository: parameter current_name
    new_name,      \* migrate_repository: parameter new_name
    status,        \* migrate_repository: local status
    output,        \* migrate_repository: local output, Some(CompletedProcess) or Nothing
    exc,           \* Some(str(e)) of the exception caught by `except Exception as e`, or Nothing
    csv,           \* MigrationDetails.csv: Some(sequence of rows), Nothing if the file is absent
    diag,          \* logs/<name>.log: Some(text of the file), Nothing if the file is absent
    log,           \* MigrationLog.txt: sequence of <<level, message>> lines
    rowsRead,      \* history: number of input rows opened by all runs so far
    invoked,       \* history: commands handed to subprocess.run in this run
    csvAtStart,    \* history: the outcome store as it was when this run started
    logAtStart,    \* history: the run log as it was when this run started
    diagBefore,    \* history: the diagnostic files as they were on entry to migrate_repository
    time_taken,    \* migrate_repository: local time_taken in milliseconds, Nothing if unset
    timeCols       \* the columns <<TimeTakenSeconds, TimeTakenMinutes>> written, in hundredths

vars == <<pc, runs, exitStatus, environ, repos, idx, current_name, new_name, status,
          output, exc, csv, diag, log, rowsRead, invoked, csvAtStart, logAtStart, diagBefore,
          time_taken, timeCols>>

taskVars == <<current_name, new_name, status, output, exc, diagBefore>>

\* The state of the duration arithmetic, which DurationSpec explores on its own.
durationVars == <<time_taken, timeCols>>

\* Everything else.
runVars == <<pc, runs, exitStatus, environ, repos, idx, current_name, new_name, status,
             output, exc, csv, diag, log, rowsRead, invoked, csvAtStart, logAtStart,
             diagBefore>>

(***************************************************************************)
(* Bounds of the model.                                                    *)
(***************************************************************************)
MaxRuns == 2        \* process runs
MaxRows == 2        \* input rows, summed over the runs
MaxElapsedMs == 700 \* elapsed time of a task, in milliseconds

(***************************************************************************)
(* Values.                                                                 *)
(***************************************************************************)
None == "<None>"            \* Python None where the other values are strings

\* An optional value of any other type: Nothing, or Some(x) with x = Some(x)[1].
Nothing == <<>>
Some(x) == <<x>>

RequiredVars == {"GH_SOURCE_PAT", "GH_PAT", "SOURCE", "DESTINATION"}

ValueOf(var) ==
    CASE var = "SOURCE"      -> "src-org"
      [] var = "DESTINATION" -> "dst-org"
      [] OTHER               -> "token"

AllSet   == [v \in RequiredVars |-> ValueOf(v)]
AllUnset == [v \in RequiredVars |-> None]

\* Process environments a run may start with: every variable set, none set,
\* or one variable set to the empty string.
ProcEnvChoices ==
    {AllSet, AllUnset} \cup {[AllSet EXCEPT ![v] = ""] : v \in RequiredVars}

\* The .env file: Nothing if it does not exist, else Some(its assignments):
\* every variable defined, or all but one.
DotenvChoices ==
    {Nothing, Some(AllSet)} \cup {Some([AllSet EXCEPT ![v] = None]) : v \in RequiredVars}

RepoNames == {"repoA", "repoB"}

\* Rows csv.DictReader can yield: a field is a name, the empty string, or
\* None (column absent or row too short).
InputRows ==
    { [cur |-> "repoA", new |-> "newA"],
      [cur |-> "repoB", new |-> "newB"],
      [cur |-> "repoA", new |-> ""],
      [cur |-> None,    new |-> "newB"] }

RECURSIVE SeqsUpTo(_, _)
SeqsUpTo(S, n) ==
    IF n = 0 THEN {<<>>}
    ELSE LET shorter == SeqsUpTo(S, n - 1)
         IN  shorter \cup {Append(s, x) : s \in {t \in shorter : Len(t) = n - 1}, x \in S}

\* The input lists of at most n rows
InputLists(n) == SeqsUpTo(InputRows, n)

\* Texts the external command may print.
TxtEmpty   == <<>>
TxtOk      == <<"o", "k">>
TxtError   == <<"a", "n", " ", "E", "r", "r", "o", "r">>
TxtFailed  == <<"F", "A", "I", "L", "E", "D", ".">>
TxtErrLow  == <<"e", "r", "r", "o", "r">>

Stdouts   == {TxtOk, TxtError, TxtFailed}
Stderrs   == {TxtEmpty, TxtErrLow}
ExitCodes == {0, 1}

CmdResults == [returncode : ExitCodes, stdout : Stdouts, stderr : Stderrs]

\* str(e) of the exceptions the try block can raise.
LaunchFaultMsg == <<"n", "o", " ", "g", "h">>
WriteFaultMsg  == <<"d", "e", "n", "i", "e", "d">>

\* Outcome of `with open(path, 'w') as f: f.write(text)`.
WriteOutcomes == {"ok", "open_fails", "write_fails"}

(***************************************************************************)
(* Python string operations.                                               *)
(***************************************************************************)
UpperLetters == <<"A","B","C","D","E","F","G","H","I","J","K","L","M",
                  "N","O","P","Q","R","S","T","U","V","W","X","Y","Z">>
LowerLetters == <<"a","b","c","d","e","f","g","h","i","j","k","l","m",
                  "n","o","p","q","r","s","t","u","v","w","x","y","z">>

LowerChar(c) ==
    IF \E i \in DOMAIN UpperLetters : UpperLetters[i] = c
    THEN LowerLetters[CHOOSE i \in DOMAIN UpperLetters : UpperLetters[i] = c]
    ELSE c

\* str.lower()
Lower(text) == [i \in DOMAIN text |-> LowerChar(text[i])]

\* needle in text
Contains(text, needle) ==
    \E i \in 0 .. Len(text) :
        /\ i + Len(needle) <= Len(text)
        /\ SubSeq(text, i + 1, i + Len(needle)) = needle

NeedleError  == <<"e", "r", "r", "o", "r">>
NeedleFailed == <<"f", "a", "i", "l", "e", "d">>

\* Python truthiness of an Optional[str]
Falsy(v) == v = None \/ v = ""

(***************************************************************************)
(* The functions of the script.                                            *)
(***************************************************************************)
\* load_dotenv(ENV_FILE): a variable of the file is set in os.environ unless
\* os.environ already holds it (override defaults to False).
LoadDotenv(env, file) ==
    [v \in RequiredVars |->
        IF env[v] = None /\ file[v] # None THEN file[v] ELSE env[v]]

\* validate_env_vars: missing_vars
MissingVars(env) == {v \in RequiredVars : Falsy(env[v])}

\* Variant of ValidateEnvVars: only the two credentials are required.
ValidateEnvVars_ChecksPatsOnly(env) ==
    \A v \in {"GH_SOURCE_PAT", "GH_PAT"} : ~Falsy(env[v])

\* Variant of ValidateEnvVars: GH_PAT is left out of required_vars.
ValidateEnvVars_ForgetsTargetPat(env) ==
    \A v \in {"GH_SOURCE_PAT", "SOURCE", "DESTINATION"} : ~Falsy(env[v])

\* validate_env_vars: the value returned
ValidateEnvVars(env) == MissingVars(env) = {}

Header == <<"SourceOrg", "SourceRepo", "TargetOrg", "TargetRepo", "Status",
            "StartTime", "EndTime", "TimeTakenSeconds", "TimeTakenMinutes">>

\* Variant of InitializeCsvOutput: the existence test is dropped, so the
\* file is opened with 'w' and the header written on every run.
InitializeCsvOutput_AlwaysWrites(store) == Some(<<Header>>)

\* Variant of InitializeCsvOutput: the existence test is dropped and the
\* file opened with 'a', so every run adds a header row.
InitializeCsvOutput_AppendsHeader(store) ==
    Some(Append(IF store = Nothing THEN <<>> ELSE store[1], Header))

\* initialize_csv_output: the store after the call
InitializeCsvOutput(store) ==
    IF store = Nothing THEN Some(<<Header>>) ELSE store

\* Variant of RowIsSkipped: only CURRENT-NAME is tested.
RowIsSkipped_IgnoresNewName(row) == Falsy(row.cur)

\* Variant of RowIsSkipped: only NEW-NAME is tested.
RowIsSkipped_IgnoresCurrentName(row) == Falsy(row.new)

\* main: the test that skips a row
RowIsSkipped(row) == Falsy(row.cur) \/ Falsy(row.new)

\* Variant of Command: the two organizations are exchanged.
Command_OrgsSwapped(env, cur, new) == <<env["DESTINATION"], cur, env["SOURCE"], new>>

\* migrate_repository: the four parameters of the command line
Command(env, cur, new) == <<env["SOURCE"], cur, env["DESTINATION"], new>>

\* Variant of IsFailure: the two .lower() calls are missing.
IsFailure_CaseSensitive(out) ==
    \/ out.returncode # 0
    \/ Contains(out.stdout, NeedleError)
    \/ Contains(out.stdout, NeedleFailed)

\* migrate_repository: the classification test on the CompletedProcess
IsFailure(out) ==
    \/ out.returncode # 0
    \/ Contains(Lower(out.stdout), NeedleError)
    \/ Contains(Lower(out.stdout), NeedleFailed)

\* Variant of StatusAfterClassify: the assignment status = "Failed" is missing.
StatusAfterClassify_StaysSuccess(prev, out) == prev

\* migrate_repository: status after the classification `if`
StatusAfterClassify(prev, out) == IF IsFailure(out) THEN "Failed" ELSE prev

\* Variant of DiagnosticText: stderr is not written.
DiagnosticText_StdoutOnly(out) == out.stdout

\* migrate_repository: the text written to the diagnostic file
DiagnosticText(out) == out.stdout \o out.stderr

\* Variant of WriteFile: the file is never opened for writing.
WriteFile_NeverCreates(file, text, outcome) == file

\* `with open(path, 'w') as f: f.write(text)`: the file afterwards. open()
\* truncates; a fault in open() leaves the file as it was, a fault in
\* write() leaves it truncated.
WriteFile(file, text, outcome) ==
    CASE outcome = "ok"          -> Some(text)
      [] outcome = "open_fails"  -> file
      [] outcome = "write_fails" -> Some(<<>>)

\* migrate_repository: the row written to the outcome store (the columns
\* SourceOrg, SourceRepo, TargetOrg, TargetRepo, Status)
OutcomeRow(env, cur, new, st) == <<env["SOURCE"], cur, env["DESTINATION"], new, st>>

\* `with open(output_csv, 'a') ...writerow(row)`: the store afterwards
AppendRow(store, row) ==
    Some(Append(IF store = Nothing THEN <<>> ELSE store[1], row))

\* Variant of Fixed2: the value is cut after two decimals instead of rounded.
Fixed2_Truncates(num, den) == {(100 * num) \div den}

\* f"{x:.2f}" for x = num / den >= 0: the hundredths the formatted text can
\* show. Formatting rounds to the nearest hundredth; when x lies exactly
\* halfway between two hundredths the direction depends on the binary float
\* nearest to x, so both neighbours are possible.
Fixed2(num, den) ==
    LET q == (100 * num) \div den
        r == (100 * num) % den
    IN  IF 2 * r < den THEN {q}
        ELSE IF 2 * r > den THEN {q + 1}
        ELSE {q, q + 1}

\* logging.info / logging.error: the handler appends one line to the log file
LogLine(lines, level, message) == Append(lines, <<level, message>>)

MsgStarting    == "Starting GitHub repository migration script..."
MsgEnvLoaded   == "Loaded environment variables from .env"
MsgEnvNotFound == ".env file not found."
MsgVarsMissing == "Required environment variables missing"
MsgNoReposCsv  == "CSV file repos.csv not found."
MsgSkipping    == "Missing CURRENT-NAME or NEW-NAME in CSV row. Skipping."
MsgMigrating   == "Migrating"
MsgErrorLog    == "Error log saved"
MsgCmdOutput   == "Command output"
MsgException   == "Exception caught during migration"
MsgResult      == "Migration result"
MsgComplete    == "All repository migrations complete!"

(***************************************************************************)
(* The state machine.                                                      *)
(***************************************************************************)
NoTask ==
    /\ current_name' = None
    /\ new_name' = None
    /\ status' = None
    /\ output' = Nothing
    /\ exc' = Nothing
    /\ diagBefore' = diag'

Init ==
    /\ pc = "idle"
    /\ runs = 0
    /\ exitStatus = Nothing
    /\ environ = AllUnset
    /\ repos = Nothing
    /\ idx = 0
    /\ current_name = None
    /\ new_name = None
    /\ status = None
    /\ output = Nothing
    /\ exc = Nothing
    /\ csv = Nothing
    /\ diag = [n \in RepoNames |-> Nothing]
    /\ log = <<>>
    /\ rowsRead = 0
    /\ invoked = <<>>
    /\ csvAtStart = Nothing
    /\ logAtStart = <<>>
    /\ diagBefore = [n \in RepoNames |-> Nothing]
    /\ time_taken = Nothing
    /\ timeCols = Nothing

\* A process is started: setup_logging opens the log file with
\* logging.FileHandler(log_file), whose mode defaults to 'a'; create_directory
\* makes logs/ if it is missing; the first line is logged.
StartRun ==
    /\ UNCHANGED durationVars
    /\ pc \in {"idle", "exited"}
    /\ runs < MaxRuns
    /\ runs' = runs + 1
    /\ \E e \in ProcEnvChoices : environ' = e
    /\ exitStatus' = Nothing
    /\ repos' = Nothing
    /\ idx' = 0
    /\ invoked' = <<>>
    /\ csvAtStart' = csv
    /\ logAtStart' = log
    /\ log' = LogLine(log, "INFO", MsgStarting)
    /\ pc' = "load_env"
    /\ UNCHANGED <<csv, diag, rowsRead>>
    /\ NoTask

\* Variant of LoadEnv: the `return` after the error line is missing.
LoadEnv_ContinuesWithoutFile ==
    /\ UNCHANGED durationVars
    /\ pc = "load_env"
    /\ \E file \in DotenvChoices :
        IF file # Nothing
        THEN /\ environ' = LoadDotenv(environ, file[1])
             /\ log' = LogLine(log, "INFO", MsgEnvLoaded)
        ELSE /\ log' = LogLine(log, "ERROR", MsgEnvNotFound)
             /\ UNCHANGED environ
    /\ pc' = "validate"
    /\ UNCHANGED <<runs, rowsRead, exitStatus, repos, idx, csv, diag, invoked, csvAtStart,
                   logAtStart, taskVars>>

\* main: `if Path(ENV_FILE).exists(): load_dotenv(...) else: ... return`
LoadEnv ==
    /\ UNCHANGED durationVars
    /\ pc = "load_env"
    /\ \E file \in DotenvChoices :
        IF file # Nothing
        THEN /\ environ' = LoadDotenv(environ, file[1])
             /\ log' = LogLine(log, "INFO", MsgEnvLoaded)
             /\ pc' = "validate"
             /\ UNCHANGED exitStatus
        ELSE /\ log' = LogLine(log, "ERROR", MsgEnvNotFound)
             /\ pc' = "exited"
             /\ exitStatus' = Some(0)
             /\ UNCHANGED environ
    /\ UNCHANGED <<runs, rowsRead, repos, idx, csv, diag, invoked, csvAtStart, logAtStart, taskVars>>

\* main: `if not validate_env_vars(): return`
ValidateEnv ==
    /\ UNCHANGED durationVars
    /\ pc = "validate"
    /\ IF ValidateEnvVars(environ)
       THEN /\ pc' = "check_input"
            /\ UNCHANGED <<log, exitStatus>>
       ELSE /\ log' = LogLine(log, "ERROR", MsgVarsMissing)
            /\ pc' = "exited"
            /\ exitStatus' = Some(0)
    /\ UNCHANGED <<runs, rowsRead, environ, repos, idx, csv, diag, invoked, csvAtStart, logAtStart,
                   taskVars>>

\* Variant of CheckInput: the `return` after the error line is missing.
CheckInput_LogsAndContinues ==
    /\ UNCHANGED durationVars
    /\ pc = "check_input"
    /\ \E exists \in BOOLEAN :
        IF exists
        THEN UNCHANGED log
        ELSE log' = LogLine(log, "ERROR", MsgNoReposCsv)
    /\ pc' = "init_output"
    /\ UNCHANGED <<runs, rowsRead, exitStatus, environ, repos, idx, csv, diag, invoked,
                   csvAtStart, logAtStart, taskVars>>

\* main: `if not Path(REPOS_CSV).exists(): ... return`
CheckInput ==
    /\ UNCHANGED durationVars
    /\ pc = "check_input"
    /\ \E exists \in BOOLEAN :
        IF exists
        THEN /\ pc' = "init_output"
             /\ UNCHANGED <<log, exitStatus>>
        ELSE /\ log' = LogLine(log, "ERROR", MsgNoReposCsv)
             /\ pc' = "exited"
             /\ exitStatus' = Some(0)
    /\ UNCHANGED <<runs, rowsRead, environ, repos, idx, csv, diag, invoked, csvAtStart, logAtStart,
                   taskVars>>

\* main: initialize_csv_output(OUTPUT_CSV)
InitOutput ==
    /\ UNCHANGED durationVars
    /\ pc = "init_output"
    /\ csv' = InitializeCsvOutput(csv)
    /\ pc' = "open_input"
    /\ UNCHANGED <<runs, rowsRead, exitStatus, environ, repos, idx, diag, log, invoked, csvAtStart,
                   logAtStart, taskVars>>

\* main: `with open(REPOS_CSV, 'r') as f: reader = csv.DictReader(f)`
OpenInput ==
    /\ UNCHANGED durationVars
    /\ pc = "open_input"
    /\ \E rows \in InputLists(MaxRows - rowsRead) :
        /\ repos' = Some(rows)
        /\ rowsRead' = rowsRead + Len(rows)
    /\ idx' = 0
    /\ pc' = "next_row"
    /\ UNCHANGED <<runs, exitStatus, environ, csv, diag, log, invoked, csvAtStart,
                   logAtStart, taskVars>>

\* main: the for loop takes a row that misses a field: log and continue
SkipRow ==
    /\ UNCHANGED durationVars
    /\ pc = "next_row"
    /\ idx < Len(repos[1])
    /\ RowIsSkipped(repos[1][idx + 1])
    /\ idx' = idx + 1
    /\ log' = LogLine(log, "ERROR", MsgSkipping)
    /\ UNCHANGED <<pc, runs, rowsRead, exitStatus, environ, repos, csv, diag, invoked, csvAtStart,
                   logAtStart, taskVars>>

\* main: the for loop takes a row with both fields and calls
\* migrate_repository, which sets status = "Success" and builds the command
BeginMigration ==
    /\ UNCHANGED durationVars
    /\ pc = "next_row"
    /\ idx < Len(repos[1])
    /\ ~RowIsSkipped(repos[1][idx + 1])
    /\ idx' = idx + 1
    /\ log' = LogLine(log, "INFO", MsgMigrating)
    /\ current_name' = repos[1][idx + 1].cur
    /\ new_name' = repos[1][idx + 1].new
    /\ status' = "Success"
    /\ output' = Nothing
    /\ exc' = Nothing
    /\ diagBefore' = diag
    /\ pc' = "invoke"
    /\ UNCHANGED <<runs, rowsRead, exitStatus, environ, repos, csv, diag, invoked, csvAtStart,
                   logAtStart>>

\* migrate_repository: subprocess.run(command, shell=True, capture_output=True,
\* text=True) returns a CompletedProcess or raises
RunCommand ==
    /\ UNCHANGED durationVars
    /\ pc = "invoke"
    /\ invoked' = Append(invoked, Command(environ, current_name, new_name))
    /\ \/ \E res \in CmdResults :
            /\ output' = Some(res)
            /\ pc' = "classify"
            /\ UNCHANGED exc
       \/ /\ exc' = Some(LaunchFaultMsg)
          /\ pc' = "handler"
          /\ UNCHANGED output
    /\ UNCHANGED <<runs, rowsRead, exitStatus, environ, repos, idx, current_name, new_name, status,
                   csv, diag, log, csvAtStart, logAtStart, diagBefore>>

\* migrate_repository: the classification `if`; when it is false the output
\* is logged and the try block is left
Classify ==
    /\ UNCHANGED durationVars
    /\ pc = "classify"
    /\ status' = StatusAfterClassify(status, output[1])
    /\ IF IsFailure(output[1])
       THEN /\ pc' = "write_diag"
            /\ UNCHANGED log
       ELSE /\ log' = LogLine(log, "INFO", MsgCmdOutput)
            /\ pc' = "record"
    /\ UNCHANGED <<runs, rowsRead, exitStatus, environ, repos, idx, current_name, new_name, output,
                   exc, csv, diag, invoked, csvAtStart, logAtStart, diagBefore>>

\* migrate_repository: the classification branch writes logs/<current_name>.log
\* and logs two lines, or the write raises and `except Exception` takes over
WriteDiagnostic ==
    /\ UNCHANGED durationVars
    /\ pc = "write_diag"
    /\ \E o \in WriteOutcomes :
        /\ diag' = [diag EXCEPT ![current_name] =
                        WriteFile(diag[current_name], DiagnosticText(output[1]), o)]
        /\ IF o = "ok"
           THEN /\ log' = LogLine(LogLine(log, "ERROR", MsgErrorLog), "INFO", MsgCmdOutput)
                /\ pc' = "record"
                /\ UNCHANGED exc
           ELSE /\ exc' = Some(WriteFaultMsg)
                /\ pc' = "handler"
                /\ UNCHANGED log
    /\ UNCHANGED <<runs, rowsRead, exitStatus, environ, repos, idx, current_name, new_name, status,
                   output, csv, invoked, csvAtStart, logAtStart, diagBefore>>

\* Variant of HandleException: a fault of the handler's own write is
\* swallowed and the task goes on to its outcome row.
HandleException_SwallowsWriteFault ==
    /\ UNCHANGED durationVars
    /\ pc = "handler"
    /\ \E o \in WriteOutcomes :
        /\ diag' = [diag EXCEPT ![current_name] =
                        WriteFile(diag[current_name], exc[1], o)]
        /\ status' = "Failed"
        /\ log' = LogLine(log, "ERROR", MsgException)
        /\ pc' = "record"
    /\ UNCHANGED <<runs, rowsRead, exitStatus, environ, repos, idx, csv, invoked,
                   csvAtStart, logAtStart, current_name, new_name, output, exc, diagBefore>>

\* migrate_repository: the `except Exception as e` block writes str(e) to
\* logs/<current_name>.log; a fault in that write is caught by nothing and
\* ends the process with a traceback (exit status 1)
HandleException ==
    /\ UNCHANGED durationVars
    /\ pc = "handler"
    /\ \E o \in WriteOutcomes :
        /\ diag' = [diag EXCEPT ![current_name] =
                        WriteFile(diag[current_name], exc[1], o)]
        /\ IF o = "ok"
           THEN /\ status' = "Failed"
                /\ log' = LogLine(log, "ERROR", MsgException)
                /\ pc' = "record"
                /\ UNCHANGED <<exitStatus, current_name, new_name, output, exc, diagBefore>>
           ELSE /\ pc' = "exited"
                /\ exitStatus' = Some(1)
                /\ UNCHANGED log
                /\ NoTask
    /\ UNCHANGED <<runs, rowsRead, environ, repos, idx, csv, invoked, csvAtStart, logAtStart>>

\* migrate_repository: the row is appended to the outcome store, the result
\* is logged and the function returns to the loop
RecordOutcome ==
    /\ UNCHANGED durationVars
    /\ pc = "record"
    /\ csv' = AppendRow(csv, OutcomeRow(environ, current_name, new_name, status))
    /\ log' = LogLine(log, "INFO", MsgResult)
    /\ pc' = "next_row"
    /\ UNCHANGED <<runs, rowsRead, exitStatus, environ, repos, idx, diag, invoked, csvAtStart,
                   logAtStart>>
    /\ NoTask

\* main: the reader is exhausted; the completion line is logged and main returns
Complete ==
    /\ UNCHANGED durationVars
    /\ pc = "next_row"
    /\ idx = Len(repos[1])
    /\ log' = LogLine(log, "INFO", MsgComplete)
    /\ pc' = "exited"
    /\ exitStatus' = Some(0)
    /\ UNCHANGED <<runs, rowsRead, environ, repos, idx, csv, diag, invoked, csvAtStart, logAtStart,
                   taskVars>>

Next ==
    \/ StartRun
    \/ LoadEnv
    \/ ValidateEnv
    \/ CheckInput
    \/ InitOutput
    \/ OpenInput
    \/ SkipRow
    \/ BeginMigration
    \/ RunCommand
    \/ Classify
    \/ WriteDiagnostic
    \/ HandleException
    \/ RecordOutcome
    \/ Complete

Spec == Init /\ [][Next]_vars

(***************************************************************************)
(* The duration columns of an outcome row, explored on their own: the      *)
(* elapsed time of one task and the two texts formatted from it.           *)
(***************************************************************************)
\* migrate_repository: time_taken = (end_time - start_time).total_seconds(),
\* here a whole number of milliseconds
MeasureElapsed ==
    /\ time_taken = Nothing
    /\ \E ms \in 0 .. MaxElapsedMs : time_taken' = Some(ms)
    /\ UNCHANGED timeCols
    /\ UNCHANGED runVars

\* migrate_repository: f"{time_taken:.2f}" and f"{(time_taken / 60):.2f}"
FormatDurations ==
    /\ time_taken # Nothing
    /\ timeCols = Nothing
    /\ \E s \in Fixed2(time_taken[1], 1000), m \in Fixed2(time_taken[1], 60000) :
          timeCols' = Some(<<s, m>>)
    /\ UNCHANGED time_taken
    /\ UNCHANGED runVars

DurationNext ==
    \/ MeasureElapsed
    \/ FormatDurations

DurationSpec == Init /\ [][DurationNext]_vars

(***************************************************************************)
(* Vocabulary of the properties.                                           *)
(***************************************************************************)
\* The rows of a store, header included; none if the file is absent.
AllRows(store) == IF store = Nothing THEN <<>> ELSE store[1]

IsPrefix(s, t) == Len(s) <= Len(t) /\ SubSeq(t, 1, Len(s)) = s

IsOutcomeRow(r) == r # Header

\* The outcome rows this run has appended to the store.
RunRows ==
    SelectSeq(SubSeq(AllRows(csv), Len(AllRows(csvAtStart)) + 1, Len(AllRows(csv))),
              IsOutcomeRow)

\* An input row that has both CURRENT-NAME and NEW-NAME non-empty.
ValidTask(row) == row.cur \notin {None, ""} /\ row.new \notin {None, ""}

ValidTasks(rows) == SelectSeq(rows, ValidTask)

\* main has returned after the loop, having passed every startup check.
RunFinished == pc = "exited" /\ repos # Nothing /\ exitStatus = Some(0)

\* A required configuration value is absent (unset or empty) in the
\* environment of the process.
ConfigAbsent == \E v \in RequiredVars : environ[v] \in {None, ""}

\* The lines this run has written to the run log.
RunLog == SubSeq(log, Len(logAtStart) + 1, Len(log))

\* This run found the .env file and loaded it.
EnvLoaded == \E i \in DOMAIN RunLog : RunLog[i] = <<"INFO", MsgEnvLoaded>>

HeaderCount(store) ==
    Cardinality({i \in DOMAIN AllRows(store) : AllRows(store)[i] = Header})

\* The task in progress has reached the point where its row is written.
AboutToRecord == pc = "record"

(***************************************************************************)
(* C1. When main has run to its end, the outcome rows this run appended    *)
(* are, in order, exactly the input rows that have both names non-empty:   *)
(* one row each, carrying the row's two names; rows missing a field add    *)
(* nothing.                                                                *)
(***************************************************************************)
C1_OneRowPerValidInputRow ==
    RunFinished =>
        LET valid == ValidTasks(repos[1])
        IN  /\ Len(RunRows) = Len(valid)
            /\ \A i \in 1 .. Len(valid) :
                  /\ RunRows[i][2] = valid[i].cur
                  /\ RunRows[i][4] = valid[i].new

C1_Witness ==
    /\ RunFinished
    /\ Len(repos[1]) = 2
    /\ Len(RunRows) = 2
    /\ RunRows[1][2] = "repoB"
    /\ RunRows[2][2] = "repoA"

(***************************************************************************)
(* C2 as stated. For a task whose command returned, the status about to be *)
(* recorded is Failed exactly when the exit code is non-zero or the        *)
(* lowercased concatenation of stdout and stderr contains "error" or       *)
(* "failed".                                                               *)
(***************************************************************************)
C2_ClassifiesCombinedText ==
    (AboutToRecord /\ output # Nothing) =>
        LET text == Lower(output[1].stdout \o output[1].stderr)
        IN  (status = "Failed") <=>
                \/ output[1].returncode # 0
                \/ Contains(text, NeedleError)
                \/ Contains(text, NeedleFailed)

(***************************************************************************)
(* C2 as amended. For a task whose command returned, the status about to   *)
(* be recorded is Failed exactly when the exit code is non-zero or the     *)
(* lowercased stdout alone contains "error" or "failed"; stderr plays no   *)
(* part in the classification.                                             *)
(***************************************************************************)
C2_ClassifiesStdout ==
    (AboutToRecord /\ output # Nothing) =>
        LET text == Lower(output[1].stdout)
        IN  (status = "Failed") <=>
                \/ output[1].returncode # 0
                \/ Contains(text, NeedleError)
                \/ Contains(text, NeedleFailed)

C2_Witness ==
    /\ AboutToRecord
    /\ output # Nothing
    /\ output[1].returncode = 0
    /\ output[1].stdout = TxtError
    /\ status = "Failed"

(***************************************************************************)
(* C3. Once the environment has been loaded, if any of the four required   *)
(* values is absent the run gets no further than the validation: no        *)
(* command is invoked, the outcome store is left as the run found it, and  *)
(* the input list is not opened.                                           *)
(***************************************************************************)
C3_MissingConfigStopsRun ==
    (runs > 0 /\ pc # "load_env" /\ ConfigAbsent) =>
        /\ pc \in {"validate", "exited"}
        /\ invoked = <<>>
        /\ csv = csvAtStart
        /\ repos = Nothing

C3_Witness ==
    /\ pc = "exited"
    /\ ConfigAbsent
    /\ environ["GH_PAT"] = None
    /\ environ["SOURCE"] # None
    /\ csvAtStart # Nothing
    /\ log[Len(log)] = <<"ERROR", MsgVarsMissing>>

(***************************************************************************)
(* C4. When the process has ended and a required configuration value is    *)
(* absent after the .env file was loaded, an error was the last thing      *)
(* reported and the exit status is non-zero.                               *)
(***************************************************************************)
C4_MissingConfigExitsNonZero ==
    (pc = "exited" /\ EnvLoaded /\ ConfigAbsent) =>
        /\ log[Len(log)][1] = "ERROR"
        /\ exitStatus # Some(0)

(***************************************************************************)
(* C5. A process that opened the input list ends only after the loop: the  *)
(* completion message is its last log line and every valid task of the     *)
(* list has its outcome row, whatever the tasks' outcomes were.            *)
(***************************************************************************)
C5_EveryTaskProcessed ==
    (pc = "exited" /\ repos # Nothing) =>
        /\ log[Len(log)] = <<"INFO", MsgComplete>>
        /\ Len(RunRows) = Len(ValidTasks(repos[1]))

(***************************************************************************)
(* C6. The outcome store is append-only: every step leaves the rows it     *)
(* held as a prefix of the rows it holds afterwards.                       *)
(***************************************************************************)
C6_StoreAppendOnly == [][IsPrefix(AllRows(csv), AllRows(csv'))]_vars

C6_Witness ==
    /\ runs = 2
    /\ Len(AllRows(csvAtStart)) >= 2
    /\ Len(AllRows(csv)) > Len(AllRows(csvAtStart))

(***************************************************************************)
(* C7. Header idempotence: a step writes a header row only if the store    *)
(* did not exist before it, and after every step an existing store holds   *)
(* exactly one header row, its first row.                                  *)
(***************************************************************************)
C7_HeaderWrittenOnce ==
    [][ /\ (HeaderCount(csv') > HeaderCount(csv)) => (csv = Nothing)
        /\ (csv' # Nothing) =>
              /\ AllRows(csv')[1] = Header
              /\ HeaderCount(csv') = 1 ]_vars

C7_Witness ==
    /\ runs = 2
    /\ pc = "open_input"
    /\ csvAtStart # Nothing
    /\ Len(AllRows(csvAtStart)) >= 2

(***************************************************************************)
(* C8. When the loop takes a row that misses CURRENT-NAME or NEW-NAME, the *)
(* step invokes no command, writes no outcome row and no diagnostic file,  *)
(* logs the skip message and leaves the loop at the next row.              *)
(***************************************************************************)
C8_InvalidRowSkipped ==
    [][ (/\ pc = "next_row"
         /\ idx < Len(repos[1])
         /\ ~ValidTask(repos[1][idx + 1]))
        => /\ pc' = "next_row"
           /\ idx' = idx + 1
           /\ invoked' = invoked
           /\ csv' = csv
           /\ diag' = diag
           /\ log' = Append(log, <<"ERROR", MsgSkipping>>) ]_vars

C8_Witness ==
    /\ RunFinished
    /\ Len(repos[1]) = 2
    /\ ~ValidTask(repos[1][1])
    /\ ValidTask(repos[1][2])
    /\ Len(RunRows) = 1
    /\ Len(invoked) = 1

(***************************************************************************)
(* C9 as stated. After a task recorded as Failed the diagnostic file of    *)
(* its source repository holds exactly the captured text of the attempt:   *)
(* stdout followed by stderr when the command returned (the message of the *)
(* launch fault when it did not).                                          *)
(***************************************************************************)
C9_DiagnosticIsCommandOutput ==
    (AboutToRecord /\ status = "Failed") =>
        diag[current_name] =
            Some(IF output # Nothing THEN output[1].stdout \o output[1].stderr
                                     ELSE exc[1])

(***************************************************************************)
(* C9 as amended. After a task recorded as Failed the diagnostic file of   *)
(* its source repository holds exactly stdout followed by stderr if no     *)
(* exception was raised in the attempt, and exactly the message of the     *)
(* caught exception (launch fault, or fault while writing the diagnostic   *)
(* file) otherwise; either way it replaces what the file held before.      *)
(***************************************************************************)
C9_DiagnosticIsCapturedText ==
    (AboutToRecord /\ status = "Failed") =>
        diag[current_name] =
            Some(IF exc = Nothing THEN output[1].stdout \o output[1].stderr
                                  ELSE exc[1])

C9_Witness ==
    /\ AboutToRecord
    /\ status = "Failed"
    /\ exc = Nothing
    /\ diagBefore[current_name] # Nothing
    /\ diagBefore[current_name] # diag[current_name]
    /\ output[1].stderr # <<>>

(***************************************************************************)
(* C10. A task about to be recorded as Success has left every diagnostic   *)
(* file as it was when the task began: none created, none modified.        *)
(***************************************************************************)
C10_SuccessWritesNoDiagnostic ==
    (AboutToRecord /\ status = "Success") => diag = diagBefore

C10_Witness ==
    /\ AboutToRecord
    /\ status = "Success"
    /\ diag[current_name] # Nothing
    /\ \E n \in RepoNames : diag[n] = Nothing

(***************************************************************************)
(* C11. When the exception handler is entered (the launch of the command,  *)
(* or anything else in the try block, raised), its step records the task   *)
(* as a Failed classification would: the diagnostic file of the source     *)
(* repository holds the exception's message, the status is Failed and the  *)
(* task goes on to the append of its outcome row, so that the run          *)
(* continues.                                                              *)
(***************************************************************************)
C11_FaultHandledAsFailed ==
    [][ (pc = "handler")
        => /\ pc' = "record"
           /\ status' = "Failed"
           /\ diag'[current_name] = Some(exc[1]) ]_vars

(***************************************************************************)
(* C12. No retries: in every state the commands this run has invoked are,  *)
(* in order, one per valid task among the rows the loop has taken (the     *)
(* task whose command is about to be launched excepted), each with the     *)
(* parameters source organization, source name, target organization,       *)
(* target name; nothing else is ever invoked.                              *)
(***************************************************************************)
TasksTaken ==
    IF repos = Nothing THEN <<>> ELSE ValidTasks(SubSeq(repos[1], 1, idx))

TasksLaunched ==
    IF pc = "invoke" THEN SubSeq(TasksTaken, 1, Len(TasksTaken) - 1) ELSE TasksTaken

C12_InvokedOncePerTask ==
    /\ Len(invoked) = Len(TasksLaunched)
    /\ \A i \in 1 .. Len(TasksLaunched) :
          invoked[i] = <<"src-org", TasksLaunched[i].cur, "dst-org", TasksLaunched[i].new>>

C12_Witness ==
    /\ RunFinished
    /\ Len(invoked) = 2
    /\ Len(RunRows) = 2
    /\ RunRows[1][5] = "Failed"
    /\ RunRows[2][5] = "Success"
    /\ invoked[1] = <<"src-org", "repoA", "dst-org", "newA">>
    /\ invoked[2] = <<"src-org", "repoB", "dst-org", "newB">>

(***************************************************************************)
(* C13 as stated. For every recorded pair of duration columns (elapsed     *)
(* time a whole number of milliseconds >= 0), TimeTakenSeconds >= 0 and    *)
(* TimeTakenMinutes is the recorded, already rounded TimeTakenSeconds      *)
(* divided by 60 and rounded to two decimals. round() is taken to round a  *)
(* value halfway between two hundredths upwards, as Python's round() does  *)
(* for 0.30/60, 0.90/60 and 1.50/60; rounding such a value downwards       *)
(* instead moves the failing inputs from 296..299 ms to 301..304 ms.       *)
(***************************************************************************)
RoundHalfUp(num, den) == (200 * num + den) \div (2 * den)

C13_MinutesFromRoundedSeconds ==
    (timeCols # Nothing) =>
        /\ timeCols[1][1] >= 0
        /\ timeCols[1][2] = RoundHalfUp(timeCols[1][1], 6000)

(***************************************************************************)
(* C13 as amended. TimeTakenSeconds >= 0 is the elapsed time rounded to    *)
(* two decimals and TimeTakenMinutes is the unrounded elapsed time divided *)
(* by 60 and rounded to two decimals. It equals the rounding of recorded   *)
(* TimeTakenSeconds / 60 unless that quotient lies exactly halfway between *)
(* two hundredths (0.30 s, 0.90 s, ...), where it is one of the two        *)
(* neighbouring hundredths.                                                *)
(***************************************************************************)
C13_MinutesFromElapsed ==
    (timeCols # Nothing) =>
        LET ms == time_taken[1]
            s  == timeCols[1][1]
            m  == timeCols[1][2]
        IN  /\ s >= 0
            /\ 100 * ms <= 1000 * s + 500
            /\ 1000 * s <= 100 * ms + 500
            /\ 100 * ms <= 60000 * m + 30000
            /\ 60000 * m <= 100 * ms + 30000
            /\ (s % 60 # 30) => (m = RoundHalfUp(s, 6000))
            /\ (s % 60 = 30) => (m \in {s \div 60, s \div 60 + 1})

C13_Witness ==
    /\ time_taken = Some(296)
    /\ timeCols = Some(<<30, 0>>)

\* This run has written the line `message` to the run log.
Logged(level, message) == \E i \in DOMAIN RunLog : RunLog[i] = <<level, message>>

(***************************************************************************)
(* C14. A run that found repos.csv absent (it passed the configuration     *)
(* checks and reported the missing file) has ended at once: no command was *)
(* invoked, the outcome store is as the run found it (no row, not even     *)
(* created) and no row of an input list was read.                          *)
(***************************************************************************)
C14_MissingInputStopsRun ==
    Logged("ERROR", MsgNoReposCsv) =>
        /\ pc = "exited"
        /\ ~ConfigAbsent
        /\ invoked = <<>>
        /\ csv = csvAtStart
        /\ repos = Nothing

C14_Witness ==
    /\ Logged("ERROR", MsgNoReposCsv)
    /\ pc = "exited"
    /\ runs = 2
    /\ Len(AllRows(csv)) >= 2

(***************************************************************************)
(* C15. Immediately after a run has started, the run log holds nothing but *)
(* the first line of this run: no line of an earlier run is left.          *)
(***************************************************************************)
C15_LogTruncatedAtStart ==
    (pc = "load_env") => (log = <<<<"INFO", MsgStarting>>>>)

(***************************************************************************)
(* C16. Processing is sequential, task by task, in the order invoking,     *)
(* classifying, recording: a command is launched only from the loop's      *)
(* hand-over of a row, when every command launched before has its outcome  *)
(* row in the store and the configuration is complete; classification      *)
(* follows the launch, the row is appended only at the end of the task,    *)
(* and at no time is more than one launched command without its row.       *)
(***************************************************************************)
C16_Sequential ==
    [][ /\ (pc' = "invoke") =>
              (pc = "next_row" /\ Len(invoked') = Len(RunRows') /\ ~ConfigAbsent)
        /\ (invoked' # invoked /\ invoked' # <<>>) =>
              /\ pc = "invoke"
              /\ Len(invoked') = Len(invoked) + 1
              /\ Len(invoked) = Len(RunRows)
              /\ ~ConfigAbsent
        /\ (pc' = "classify") => (pc = "invoke")
        /\ (pc' = "write_diag") => (pc = "classify")
        /\ (pc' = "record") => (pc \in {"classify", "write_diag", "handler"})
        /\ (Len(RunRows') > Len(RunRows)) =>
              (pc = "record" /\ Len(RunRows') = Len(invoked'))
        /\ Len(invoked') <= Len(RunRows') + 1 ]_vars

C16_Witness ==
    /\ pc = "invoke"
    /\ Len(invoked) = 1
    /\ Len(RunRows) = 1
    /\ idx = 2

(***************************************************************************)
(* C17. Every Failed row this run has appended has its diagnostic file     *)
(* logs/<source_repo>.log, in every state, a state between the two writes  *)
(* of a task included. (The converse fails: the witness is a state with a  *)
(* diagnostic file whose repository has no row in the store.)              *)
(***************************************************************************)
C17_FailedRowHasDiagnostic ==
    \A i \in DOMAIN RunRows :
        (RunRows[i][5] = "Failed") => (diag[RunRows[i][2]] # Nothing)

C17_Witness ==
    /\ Len(RunRows) = 1
    /\ RunRows[1][2] = "repoB"
    /\ RunRows[1][5] = "Failed"
    /\ diag["repoB"] # Nothing
    /\ diag["repoA"] # Nothing
    /\ \A i \in DOMAIN AllRows(csv) : AllRows(csv)[i][2] # "repoA"

(***************************************************************************)
(* C18. When the handler's write of the diagnostic file does not succeed   *)
(* (the file does not hold the exception's message afterwards), the        *)
(* exception escapes: the process ends with exit status 1 in that step,    *)
(* the store and the run log are left as they were (no outcome row for     *)
(* the task, no completion message), and the only step that can follow is  *)
(* the start of another process (no later task of the list is invoked).    *)
(***************************************************************************)
C18_WriteFaultEscapes ==
    [][ /\ (pc = "handler" /\ diag'[current_name] # Some(exc[1])) =>
              /\ pc' = "exited"
              /\ exitStatus' = Some(1)
              /\ csv' = csv
              /\ log' = log
              /\ invoked' = invoked
        /\ (exitStatus = Some(1)) => (runs' = runs + 1 /\ pc' = "load_env") ]_vars

C18_Witness ==
    /\ pc = "exited"
    /\ exitStatus = Some(1)
    /\ Len(repos[1]) = 2
    /\ idx = 1
    /\ ValidTask(repos[1][2])
    /\ Len(invoked) = 1
    /\ RunRows = <<>>
    /\ diag[repos[1][1].cur] = Some(<<>>)
    /\ ~Logged("INFO", MsgComplete)

(***************************************************************************)
(* C19. A run that found no .env file has ended at once, whatever the      *)
(* process environment holds: no command was invoked, the outcome store is *)
(* as the run found it (not created if it was absent) and the input list   *)
(* was not opened.                                                         *)
(***************************************************************************)
C19_MissingEnvFileStopsRun ==
    Logged("ERROR", MsgEnvNotFound) =>
        /\ pc = "exited"
        /\ exitStatus = Some(0)
        /\ invoked = <<>>
        /\ csv = csvAtStart
        /\ repos = Nothing

C19_Witness ==
    /\ Logged("ERROR", MsgEnvNotFound)
    /\ pc = "exited"
    /\ environ = AllSet
    /\ csv = Nothing

====
